---- MODULE Spec2Model ----
(***************************************************************************)
(* Model of scripts/proper_a2a_agent.py: SimpleAgentExecutor.execute and   *)
(* SimpleAgentExecutor.cancel publishing on a task's EventQueue.           *)
(*                                                                         *)
(* execute is a coroutine; every `await` in it is a point where the event  *)
(* loop may run something else (another task's execute, a cancel handler). *)
(* pc[t] is the await statement task t's coroutine is about to run, named  *)
(* by its source line.  Progress values are held in tenths (0.1 is 1, 1.0  *)
(* is 10) so that they stay integers.                                      *)
(***************************************************************************)
EXTENDS Integers, Sequences, FiniteSets, TLC

VARIABLES
    pc,        \* pc[t]: position of task t's execute coroutine
    i,         \* i[t]: the loop index of `for i, response in enumerate(...)`
    message,   \* message[t]: the local `message` of execute
    queue,     \* queue[t]: the events enqueued on task t's event_queue, in order
    closed,    \* closed[t]: whether task t's event_queue has been closed
    error,     \* error[t]: whether an exception was raised inside task t's execute
    responses  \* the HTTP responses handle_message_send has returned, in order

vars == <<pc, i, message, queue, closed, error, responses>>

\* The state of the executor and of its event queues.
executorVars == <<pc, i, message, queue, closed, error>>

\* The task ids (context.request_id) whose execute runs on the one executor.
Tasks == {1, 2}

\* Bound on the number of cancel requests the environment delivers in a run.
MaxCancels == 1

\* Bound on the number of REST requests the environment posts in a run.
MaxRest == 1

----------------------------------------------------------------------------
(* Request contexts. *)

NoAttr == [has |-> FALSE, val |-> ""]
Attr(v) == [has |-> TRUE, val |-> v]

\* A context: whether context.request exists, is truthy and has a message;
\* the message's content attribute; the message's parts attribute (a
\* sequence of parts, each with or without a text attribute).
Contexts ==
    { [request |-> FALSE, content |-> NoAttr, parts |-> NoAttr],
      [request |-> TRUE,  content |-> Attr("ping"), parts |-> NoAttr],
      [request |-> TRUE,  content |-> NoAttr, parts |-> Attr(<<Attr("ping")>>)],
      [request |-> TRUE,  content |-> NoAttr, parts |-> Attr(<<NoAttr, Attr("")>>)] }

\* Bound on the number of parts of a request message.
MaxParts == 2

\* The contexts execute is given in the check of its request text: no request;
\* or a request whose message has a content attribute or not, and a parts
\* attribute or not, each part with a text attribute (empty or not) or without.
PartValues == {NoAttr, Attr(""), Attr("a"), Attr("b")}
PartLists == UNION {[1..n -> PartValues] : n \in 0..MaxParts}
AllContexts ==
    {[request |-> FALSE, content |-> NoAttr, parts |-> NoAttr]}
        \cup [request : {TRUE},
              content : {NoAttr, Attr(""), Attr("ping")},
              parts : {NoAttr} \cup {Attr(ps) : ps \in PartLists}]

DefaultMessage == "Hello World from A2A Agent!"

\* ' '.join(text_parts)
RECURSIVE Join(_)
Join(parts) ==
    IF parts = <<>> THEN ""
    ELSE IF Len(parts) = 1 THEN parts[1]
    ELSE parts[1] \o " " \o Join(Tail(parts))

\* for part in parts: if hasattr(part, 'text') and part.text: append
RECURSIVE TextParts(_)
TextParts(parts) ==
    IF parts = <<>> THEN <<>>
    ELSE IF parts[1].has /\ parts[1].val # ""
         THEN <<parts[1].val>> \o TextParts(Tail(parts))
         ELSE TextParts(Tail(parts))

\* Lines 43-54 with the parts looked at before the content attribute.
ExtractMessagePartsFirst(ctx) ==
    IF ~ctx.request THEN DefaultMessage
    ELSE IF ctx.parts.has /\ ctx.parts.val # <<>> /\ TextParts(ctx.parts.val) # <<>>
         THEN Join(TextParts(ctx.parts.val))
    ELSE IF ctx.content.has THEN ctx.content.val
    ELSE DefaultMessage

\* Lines 43-54 of execute.
ExtractMessage(ctx) ==
    IF ~ctx.request THEN DefaultMessage
    ELSE IF ctx.content.has THEN ctx.content.val
    ELSE IF ctx.parts.has /\ ctx.parts.val # <<>>
         THEN IF TextParts(ctx.parts.val) # <<>>
              THEN Join(TextParts(ctx.parts.val))
              ELSE DefaultMessage
         ELSE DefaultMessage

----------------------------------------------------------------------------
(* Events. *)

StatusUpdate(t, state, progress, msg) ==
    [type |-> "task-status-update", taskId |-> t, state |-> state,
     progress |-> progress, message |-> msg]

\* new_agent_text_message(text): a Message carrying only the text.
TextMessage(text) == [type |-> "message", text |-> text]

ArtifactUpdate(t, idx, msg) ==
    [type |-> "artifact-update", taskId |-> t, artifactId |-> idx,
     name |-> "analysis_report.md", mimeType |-> "text/markdown",
     content |-> <<"# Analysis Report Request: ", msg>>]

\* streaming_responses with the progress literals of its first two progress
\* entries exchanged.
StreamingResponsesSwapped(msg) ==
    << [type |-> "message",  content |-> <<"I'm analyzing your request">>],
       [type |-> "progress", progress |-> 7, message |-> "Processing data..."],
       [type |-> "message",  content |-> <<"Found relevant information">>],
       [type |-> "progress", progress |-> 5, message |-> "Crafting response..."],
       [type |-> "message",  content |-> <<"Response to ", msg>>],
       [type |-> "artifact", content |-> <<"Generated artifact: analysis_report.md">>],
       [type |-> "progress", progress |-> 9, message |-> "Finalizing response..."],
       [type |-> "message",  content |-> <<"Task completed successfully!">>] >>

\* The list streaming_responses of execute; index k here is index k-1 there.
StreamingResponses(msg) ==
    << [type |-> "message",  content |-> <<"I'm analyzing your request">>],
       [type |-> "progress", progress |-> 5, message |-> "Processing data..."],
       [type |-> "message",  content |-> <<"Found relevant information">>],
       [type |-> "progress", progress |-> 7, message |-> "Crafting response..."],
       [type |-> "message",  content |-> <<"Response to ", msg>>],
       [type |-> "artifact", content |-> <<"Generated artifact: analysis_report.md">>],
       [type |-> "progress", progress |-> 9, message |-> "Finalizing response..."],
       [type |-> "message",  content |-> <<"Task completed successfully!">>] >>

NumResponses == Len(StreamingResponses(DefaultMessage))

\* The loop body with the artifact entry published as a plain message.
ResponseEventArtifactAsMessage(t, k, msg) ==
    LET response == StreamingResponses(msg)[k] IN
    IF response.type \in {"message", "artifact"} THEN TextMessage(response.content)
    ELSE StatusUpdate(t, "running", response.progress, response.message)

\* The event the loop body enqueues for streaming_responses[k-1].
ResponseEvent(t, k, msg) ==
    LET response == StreamingResponses(msg)[k] IN
    IF response.type = "message" THEN TextMessage(response.content)
    ELSE IF response.type = "progress"
         THEN StatusUpdate(t, "running", response.progress, response.message)
         ELSE ArtifactUpdate(t, k - 1, msg)

\* The first status update with the progress literal 0.0 in place of 0.1.
StartedEventZero(t) == StatusUpdate(t, "running", 0, "Task started - analyzing request")

StartedEvent(t) == StatusUpdate(t, "running", 1, "Task started - analyzing request")
ProcessingEvent(msg) == TextMessage(<<"Processing your request: ", msg>>)
GatheringEvent(t) == StatusUpdate(t, "running", 3, "Gathering information...")
CompletedEvent(t) == StatusUpdate(t, "completed", 10, "Task completed successfully")
CancelledEvent == TextMessage(<<"Task cancelled">>)

\* Every enqueue lands on one queue kept on the shared executor instance.
EnqueueShared(t, event) ==
    queue' = [queue EXCEPT ![CHOOSE u \in Tasks : \A v \in Tasks : u <= v] = Append(@, event)]

\* event_queue.enqueue_event(event)
Enqueue(t, event) == queue' = [queue EXCEPT ![t] = Append(@, event)]

----------------------------------------------------------------------------
(* Observations of a queue. *)

IsStatus(e) == e.type = "task-status-update"
IsTerminal(e) == IsStatus(e) /\ e.state \in {"completed", "cancelled", "failed"}

StatusEvents(t) == SelectSeq(queue[t], IsStatus)
TerminalEvents(t) == SelectSeq(queue[t], IsTerminal)

\* Number of "Task cancelled" messages published so far, over all tasks.
RECURSIVE CancelCount(_)
CancelCount(S) ==
    IF S = {} THEN 0
    ELSE LET t == CHOOSE x \in S : TRUE IN
         Len(SelectSeq(queue[t], LAMBDA e : e = CancelledEvent)) + CancelCount(S \ {t})

AwaitsEnqueue(t) == pc[t] \in {"l57", "l70", "l74", "l101", "l134"}

----------------------------------------------------------------------------
(* The state machine. *)

Init ==
    /\ pc = [t \in Tasks |-> "idle"]
    /\ i = [t \in Tasks |-> 0]
    /\ message = [t \in Tasks |-> DefaultMessage]
    /\ queue = [t \in Tasks |-> <<>>]
    /\ closed = [t \in Tasks |-> FALSE]
    /\ error = [t \in Tasks |-> FALSE]
    /\ responses = <<>>

\* execute(context, event_queue) is called with context ctx: lines 43-54 run
\* up to the first await.
Begin(t, ctx) ==
    /\ pc[t] = "idle"
    /\ message' = [message EXCEPT ![t] = ExtractMessage(ctx)]
    /\ pc' = [pc EXCEPT ![t] = "l57"]
    /\ UNCHANGED <<i, queue, closed, error, responses>>

Start(t) == \E ctx \in Contexts : Begin(t, ctx)

\* Lines 57-67.
SendStarted(t) ==
    /\ pc[t] = "l57"
    /\ Enqueue(t, StartedEvent(t))
    /\ pc' = [pc EXCEPT ![t] = "l70"]
    /\ UNCHANGED <<i, message, closed, error, responses>>

\* Line 70.
SendProcessing(t) ==
    /\ pc[t] = "l70"
    /\ Enqueue(t, ProcessingEvent(message[t]))
    /\ pc' = [pc EXCEPT ![t] = "l71"]
    /\ UNCHANGED <<i, message, closed, error, responses>>

\* Line 71: await asyncio.sleep(0.8)
Sleep(t) ==
    /\ pc[t] = "l71"
    /\ pc' = [pc EXCEPT ![t] = "l74"]
    /\ UNCHANGED <<i, message, queue, closed, error, responses>>

\* Lines 74-84, then the for statement of line 98 takes its first element.
SendGathering(t) ==
    /\ pc[t] = "l74"
    /\ Enqueue(t, GatheringEvent(t))
    /\ i' = [i EXCEPT ![t] = 0]
    /\ pc' = [pc EXCEPT ![t] = IF NumResponses > 0 THEN "l99" ELSE "l134"]
    /\ UNCHANGED <<message, closed, error, responses>>

\* Line 99: await asyncio.sleep(0.6)
LoopSleep(t) ==
    /\ pc[t] = "l99"
    /\ pc' = [pc EXCEPT ![t] = "l101"]
    /\ UNCHANGED <<i, message, queue, closed, error, responses>>

\* Lines 101-131, then line 98 takes the next element or leaves the loop.
LoopEmit(t) ==
    /\ pc[t] = "l101"
    /\ Enqueue(t, ResponseEvent(t, i[t] + 1, message[t]))
    /\ i' = [i EXCEPT ![t] = @ + 1]
    /\ pc' = [pc EXCEPT ![t] = IF i[t] + 1 < NumResponses THEN "l99" ELSE "l134"]
    /\ UNCHANGED <<message, closed, error, responses>>

\* Lines 134-144, then execute returns.
SendCompleted(t) ==
    /\ pc[t] = "l134"
    /\ Enqueue(t, CompletedEvent(t))
    /\ pc' = [pc EXCEPT ![t] = "done"]
    /\ UNCHANGED <<i, message, closed, error, responses>>

\* The exception is swallowed and execute goes on with its next statement.
RaiseSwallowed(t) ==
    /\ AwaitsEnqueue(t)
    /\ error' = [error EXCEPT ![t] = TRUE]
    /\ pc' = [pc EXCEPT ![t] =
            CASE pc[t] = "l57" -> "l70"
              [] pc[t] = "l70" -> "l71"
              [] pc[t] = "l74" -> "l99"
              [] pc[t] = "l101" -> (IF i[t] + 1 < NumResponses THEN "l99" ELSE "l134")
              [] pc[t] = "l134" -> "done"]
    /\ i' = [i EXCEPT ![t] = IF pc[t] = "l101" THEN @ + 1 ELSE @]
    /\ UNCHANGED <<message, queue, closed, responses>>

\* Producing or enqueueing an event raises: execute has no try statement, so
\* the exception leaves execute, and nothing is enqueued.
Raise(t) ==
    /\ AwaitsEnqueue(t)
    /\ error' = [error EXCEPT ![t] = TRUE]
    /\ pc' = [pc EXCEPT ![t] = "raised"]
    /\ UNCHANGED <<i, message, queue, closed, responses>>

\* cancel enqueueing its message on the queue of another task.
CancelElsewhere(t) ==
    /\ pc[t] # "idle"
    /\ CancelCount(Tasks) < MaxCancels
    /\ \E u \in Tasks \ {t} : Enqueue(u, CancelledEvent)
    /\ UNCHANGED <<pc, i, message, closed, error, responses>>

\* Lines 146-148: cancel(context, event_queue) for a task whose execute was called.
Cancel(t) ==
    /\ pc[t] # "idle"
    /\ CancelCount(Tasks) < MaxCancels
    /\ Enqueue(t, CancelledEvent)
    /\ UNCHANGED <<pc, i, message, closed, error, responses>>

\* One step of task t's execute coroutine.
Execute(t) ==
    \/ SendStarted(t)
    \/ SendProcessing(t)
    \/ Sleep(t)
    \/ SendGathering(t)
    \/ LoopSleep(t)
    \/ LoopEmit(t)
    \/ SendCompleted(t)

Next ==
    \E t \in Tasks :
        \/ Start(t)
        \/ Execute(t)
        \/ Raise(t)
        \/ Cancel(t)

Spec == Init /\ [][Next]_vars

\* The event loop resumes every coroutine that is ready to run.
FairSpec == Spec /\ \A t \in Tasks : WF_vars(Execute(t))

----------------------------------------------------------------------------
(* execute up to its first use of the request text, over all contexts. *)

StartAny(t) == \E ctx \in AllContexts : Begin(t, ctx)

NextExtract == \E t \in Tasks : StartAny(t) \/ SendStarted(t) \/ SendProcessing(t)

ExtractSpec == Init /\ [][NextExtract]_vars

----------------------------------------------------------------------------
(* The REST routes mounted under /a2a. *)

\* Lines 288-290: all three routes are bound to handle_message_send.
Routes == {"/message.send", "/task.get", "/task.cancel"}

\* A POST body: whether request.json() can parse it, and the task it names.
Bodies ==
    {[parseable |-> FALSE, taskId |-> 0]}
        \cup {[parseable |-> TRUE, taskId |-> t] : t \in Tasks}

\* Ids as callers see them: the id of a task whose execute the executor runs,
\* and f"rest-{loop.time()}" of line 244, the n-th request standing for its time.
TaskKey(t) == [kind |-> "task", n |-> t]
RestId(n) == [kind |-> "rest", n |-> n]

\* Lines 254-262.
AcceptedResponse(id) == [status |-> 200, id |-> id, state |-> "accepted"]

\* Lines 264-275.
ErrorResponse == [status |-> 500, id |-> [kind |-> "error", n |-> 0], state |-> "error"]

\* handle_message_send with the task.cancel route passed on to the executor's
\* cancel for the task the body names.
HandleMessageSendDispatch(route, body) ==
    /\ Len(responses) < MaxRest
    /\ responses' = Append(responses,
            IF body.parseable THEN AcceptedResponse(RestId(Len(responses) + 1))
            ELSE ErrorResponse)
    /\ IF route = "/task.cancel" /\ body.parseable
       THEN /\ Enqueue(body.taskId, CancelledEvent)
            /\ UNCHANGED <<pc, i, message, closed, error>>
       ELSE UNCHANGED executorVars

\* Lines 236-275: handle_message_send(request) for a POST on one of the routes.
HandleMessageSend(route, body) ==
    /\ Len(responses) < MaxRest
    /\ responses' = Append(responses,
            IF body.parseable THEN AcceptedResponse(RestId(Len(responses) + 1))
            ELSE ErrorResponse)
    /\ UNCHANGED executorVars

Rest == \E route \in Routes, body \in Bodies : HandleMessageSend(route, body)

\* The REST shim beside the executor's runs.
NextRest ==
    \/ \E t \in Tasks : Start(t) \/ Execute(t)
    \/ Rest

RestSpec == Init /\ [][NextRest]_vars

FairRestSpec == RestSpec /\ \A t \in Tasks : WF_vars(Execute(t))

----------------------------------------------------------------------------
(* Observations the properties use. *)

Finished(t) == pc[t] \in {"done", "raised"}

\* The events of queue[t] that execute enqueued (cancel enqueues only
\* CancelledEvent, and execute never does).
ExecuteEvents(t) == SelectSeq(queue[t], LAMBDA e : e # CancelledEvent)

\* The positions of queue[t] holding a completed status update.
CompletedAt(t) ==
    {j \in DOMAIN queue[t] : IsStatus(queue[t][j]) /\ queue[t][j].state = "completed"}

\* The positions of queue[t] holding the cancel handler's message.
CancelledAt(t) == {j \in DOMAIN queue[t] : queue[t][j] = CancelledEvent}

\* The state of the last status update published for t.
TaskState(t) ==
    IF StatusEvents(t) = <<>> THEN "created"
    ELSE StatusEvents(t)[Len(StatusEvents(t))].state

\* The events execute enqueues for task t with request text msg, in the order
\* of its statements.
ExpectedEvents(t, msg) ==
    <<StartedEvent(t), ProcessingEvent(msg), GatheringEvent(t)>>
        \o [k \in 1..NumResponses |-> ResponseEvent(t, k, msg)]
        \o <<CompletedEvent(t)>>

IsPrefix(s, r) == Len(s) <= Len(r) /\ s = SubSeq(r, 1, Len(s))

----------------------------------------------------------------------------
(* Properties. *)

\* C1: a cancel handled after execute started and before the completed status
\* update was published means no completed status update is ever published
\* for the task, and a finished task is in state cancelled.
C1_CancelNeverCompletes ==
    \A t \in Tasks :
        (\E j \in CancelledAt(t) : \A k \in CompletedAt(t) : j < k)
            => /\ CompletedAt(t) = {}
               /\ (Finished(t) => TaskState(t) = "cancelled")

\* C2: at most one terminal status update is published per task, nothing is
\* published after it, and a task whose execute has ended has exactly one.
C2_OneTerminalEventLast ==
    \A t \in Tasks :
        /\ Len(TerminalEvents(t)) <= 1
        /\ \A j \in DOMAIN queue[t] : IsTerminal(queue[t][j]) => j = Len(queue[t])
        /\ (Finished(t) => Len(TerminalEvents(t)) = 1)

\* C3: an exception raised inside execute does not leave execute, and a
\* failed status update is on the task's queue.
C3_ExceptionBecomesFailed ==
    \A t \in Tasks :
        error[t] => /\ pc[t] # "raised"
                    /\ \E j \in DOMAIN queue[t] :
                          IsStatus(queue[t][j]) /\ queue[t][j].state = "failed"

\* C4: every task whose execute has started eventually has a terminal status
\* update on its queue.
C4_StartedLeadsToTerminal ==
    \A t \in Tasks : (pc[t] # "idle") ~> (TerminalEvents(t) # <<>>)

\* C5: the progress values of a task's status updates are non-decreasing in
\* publish order, and the last one is 1.0 exactly when a completed status
\* update has been published.
C5_ProgressMonotone ==
    \A t \in Tasks :
        LET s == StatusEvents(t) IN
        /\ \A j, k \in DOMAIN s : j < k => s[j].progress <= s[k].progress
        /\ s # <<>> => (s[Len(s)].progress = 10 <=> TaskState(t) = "completed")

\* C5 witness: a task ran to completion with a cancel message among its events.
C5_Witness ==
    \E t \in Tasks :
        /\ pc[t] = "done"
        /\ Len(StatusEvents(t)) = 6
        /\ CancelledAt(t) # {}

\* C6: when cancel is handled right after the first status update, no status
\* update with a greater progress is published and the task ends cancelled.
C6_ImmediateCancelStopsProgress ==
    \A t \in Tasks :
        (Len(queue[t]) >= 2 /\ queue[t][1] = StartedEvent(t) /\ queue[t][2] = CancelledEvent)
            => /\ \A j \in DOMAIN queue[t] :
                     IsStatus(queue[t][j]) => queue[t][j].progress <= queue[t][1].progress
               /\ (Finished(t) => TaskState(t) = "cancelled")

\* C7: once a terminal status update is published and execute has returned,
\* the task's queue is closed; and a queue is closed only after a terminal one.
C7_ClosedAfterTerminal ==
    \A t \in Tasks :
        /\ (pc[t] = "done" /\ TerminalEvents(t) # <<>>) => closed[t]
        /\ closed[t] => TerminalEvents(t) # <<>>

\* C8: a cancel handled after the terminal status update leaves the task's
\* queue as it was.
C8_CancelAfterTerminalIsNoOp ==
    [][\A t \in Tasks : (TerminalEvents(t) # <<>> /\ Cancel(t)) => queue'[t] = queue[t]]_vars

C10_UninterruptedRunCloses ==
    \A t \in Tasks :
        (pc[t] = "done" /\ CancelledAt(t) = {}) =>
            LET q == queue[t] IN
            /\ Len(q) >= 3
            /\ IsStatus(q[1]) /\ q[1].state = "running"
            /\ \E j \in 2..(Len(q) - 1) : q[j].type = "message"
            /\ q[Len(q)] = CompletedEvent(t)
            /\ closed[t]

StartedIds == {TaskKey(t) : t \in {u \in Tasks : pc[u] # "idle"}}

\* The ids the REST routes have answered with state "accepted".
AcceptedIds == {responses[k].id : k \in {j \in DOMAIN responses : responses[j].state = "accepted"}}

\* C13: every submission answered with an id and state "accepted" is
\* eventually followed by execute starting for that id.
C13_AcceptedLeadsToExecute ==
    \A n \in 1..MaxRest : (RestId(n) \in AcceptedIds) ~> (RestId(n) \in StartedIds)

NotesCancellation(e) ==
    \/ e.type = "message" /\ e.text = <<"Task cancelled">>
    \/ IsStatus(e) /\ e.state = "cancelled"

\* C14: a cancel handled while the task's last status is running appends an
\* event noting the cancellation to that task's queue, and the queue is not
\* closed when it does.
C14_CancelPublishesNote ==
    [][\A t \in Tasks :
          (Cancel(t) /\ TaskState(t) = "running") =>
              /\ Len(queue'[t]) = Len(queue[t]) + 1
              /\ SubSeq(queue'[t], 1, Len(queue[t])) = queue[t]
              /\ NotesCancellation(queue'[t][Len(queue'[t])])
              /\ ~closed[t] /\ ~closed'[t]
      ]_vars

\* C14 witness: the cancel message is the last event of a task that is
\* running, part-way through execute.
C14_Witness ==
    \E t \in Tasks :
        /\ TaskState(t) = "running"
        /\ pc[t] = "l99"
        /\ queue[t] # <<>>
        /\ queue[t][Len(queue[t])] = CancelledEvent

\* C15: once an error was raised in a task's execute, execute publishes no
\* further event on that task's queue.
C15_NoEventsAfterError ==
    [][\A t \in Tasks : error[t] => ExecuteEvents(t)' = ExecuteEvents(t)]_vars

\* C15 witness: the error hit a task in the middle of its steps (after the
\* gathering status update, before the loop finished) while the other task
\* went on to completion.
C15_Witness ==
    \E t, u \in Tasks :
        /\ error[t] /\ pc[t] = "raised"
        /\ Len(ExecuteEvents(t)) \in 3..6
        /\ pc[u] = "done"

\* The kind of an event, with the state and progress of a status update.
Shape(e) ==
    IF IsStatus(e) THEN <<"StatusUpdate", e.state, e.progress>>
    ELSE IF e.type = "message" THEN <<"Message">>
    ELSE <<"ArtifactUpdate">>

Shapes(s) == [k \in 1..Len(s) |-> Shape(s[k])]

\* C16: an execute run that returned has published exactly these 12 events
\* in this order, whatever the request text; until then it has published a
\* prefix of them.
C16_FixedTwelveEvents ==
    LET order == << <<"StatusUpdate", "running", 1>>, <<"Message">>,
                    <<"StatusUpdate", "running", 3>>, <<"Message">>,
                    <<"StatusUpdate", "running", 5>>, <<"Message">>,
                    <<"StatusUpdate", "running", 7>>, <<"Message">>,
                    <<"ArtifactUpdate">>,
                    <<"StatusUpdate", "running", 9>>, <<"Message">>,
                    <<"StatusUpdate", "completed", 10>> >>
    IN  \A t \in Tasks :
            /\ IsPrefix(Shapes(ExecuteEvents(t)), order)
            /\ pc[t] = "done" => Shapes(ExecuteEvents(t)) = order

\* C16 witness: two runs with different request texts both returned, neither
\* cancelled.
C16_Witness ==
    /\ \A t \in Tasks : pc[t] = "done" /\ Len(queue[t]) = 12
    /\ \E t, u \in Tasks : message[t] # message[u]

\* The texts s[1], ..., s[n] with one space between neighbours.
RECURSIVE SpaceJoined(_, _)
SpaceJoined(s, n) ==
    IF n = 0 THEN ""
    ELSE IF n = 1 THEN s[1]
    ELSE SpaceJoined(s, n - 1) \o " " \o s[n]

\* The non-empty text values of the parts of ctx's message, in order.
NonEmptyTexts(ctx) ==
    IF ctx.request /\ ctx.parts.has
    THEN LET kept == SelectSeq(ctx.parts.val, LAMBDA p : p.has /\ p.val # "")
         IN  [k \in 1..Len(kept) |-> kept[k].val]
    ELSE <<>>

\* The request text as C18 describes it.
RequestText(ctx) ==
    IF ctx.request /\ ctx.content.has THEN ctx.content.val
    ELSE IF NonEmptyTexts(ctx) # <<>>
         THEN SpaceJoined(NonEmptyTexts(ctx), Len(NonEmptyTexts(ctx)))
         ELSE DefaultMessage

\* C18: the request text execute takes from its context is the message's
\* content attribute when it has one, else the non-empty part texts joined
\* by single spaces, else the default text; and that text is the one in the
\* processing message execute publishes.
C18_RequestText ==
    [][\A t \in Tasks :
          /\ \A ctx \in AllContexts : Begin(t, ctx) => message'[t] = RequestText(ctx)
          /\ SendProcessing(t) =>
                queue'[t][Len(queue'[t])] = TextMessage(<<"Processing your request: ", message[t]>>)
      ]_vars

\* C18 witness: one task published its processing message with the text
\* joined from two parts, the other took an empty content attribute.
C18_Witness ==
    \E t, u \in Tasks :
        /\ message[t] = "a b" /\ pc[t] = "l71"
        /\ message[u] = "" /\ pc[u] # "idle"

====
